---------------------------- MODULE Spec2Model ----------------------------
(***************************************************************************)
(* A model of the task service of todo-backend: the task collection, the   *)
(* route handlers of routes/tasks.js, the periodic expiry job of server.js *)
(* the helpers of utils/taskUtils.js and utils/dateUtils.js, and the       *)
(* taskId counter of models/Counter.js.                                    *)
(*                                                                         *)
(* Time.  An instant (a JavaScript Date) is a whole number of hours since  *)
(* the epoch, in UTC.  The server's local calendar is UTC shifted by tz    *)
(* hours; getFullYear/getMonth/getDate/getHours and setHours read and      *)
(* write the local calendar, the "...T12:00:00.000Z" strings are UTC.      *)
(***************************************************************************)
EXTENDS Integers, FiniteSets, Sequences, TLC

VARIABLES
    tasks,      \* the Task collection: a function from the _ids in use to documents
    nextId,     \* the next fresh _id (an ObjectId is never handed out twice)
    now,        \* the server clock, new Date()
    tz,         \* the server's UTC offset in hours (local = UTC + tz)
    resp,       \* the answer to the latest request: [op, code, ids]
    counter,    \* the value of the Counter document named 'task'
    fault,      \* the store call that failed during the latest operation
    sweeping,   \* expiry sweeps between their Task.find and their Task.updateMany
    updating,   \* client updates between their read and their write
    creating,   \* new tasks between Counter.getNextValue and their insert
    deleting    \* delete requests of a task's owner: [req, id, found, code], code 0
                \* between the Task.findById and the Task.findByIdAndDelete

vars == <<tasks, nextId, now, tz, resp, counter, fault, sweeping, updating, creating,
          deleting>>

\* the operations in flight
flight == <<sweeping, updating, creating, deleting>>

---------------------------------------------------------------------------
(* Bounds of the model *)

MaxTasks == 2       \* documents ever created
FirstDay == 2       \* the calendar day (UTC) on which the clock starts
MaxDays == 1        \* calendar days the clock runs through
MaxFlight == 2      \* operations in flight at the same time
MaxOffset == 12     \* the server's UTC offset runs from -MaxOffset to MaxOffset hours
MaxRetryHours == 1  \* hours between a batch update and its retry
MaxDeletes == 2     \* delete requests of owners

Users == {"A", "B"}
TaskIds == 1..MaxTasks
LastDay == FirstDay + MaxDays - 1
ClockHours == {2, 13}          \* the hours of a day at which requests arrive
ClockPoints == {d * 24 + h : d \in FirstDay..LastDay, h \in ClockHours}

(* JavaScript's null and undefined, where a Date is expected *)
NULL == -1
UNDEFINED == -2

Statuses == {"Pending", "In Progress", "Completed", "Expired"}
NoStatus == "undefined"
Priorities == {"High", "Medium", "Low"}
NoPriority == "undefined"

(* What clients send.  A date travels as a date string, which new Date()   *)
(* reads as midnight UTC of that day.                                      *)
ClientDate(d) == d * 24
DateInputs == {ClientDate(d) : d \in (FirstDay - 1)..(LastDay + 1)}
StartInputs == {ClientDate(d) : d \in (FirstDay - 1)..LastDay}
PostBodies == [deadline : DateInputs \cup {UNDEFINED},
               status : Statuses \cup {NoStatus},
               start_time : StartInputs \cup {NULL, UNDEFINED},
               priority : {"High", "Low"},
               hours : {2}]
\* updates of the dates and the status
PutBodies == [deadline : DateInputs \cup {UNDEFINED},
              status : Statuses \cup {NoStatus},
              start_time : StartInputs \cup {NULL, UNDEFINED},
              priority : {NoPriority},
              hours : {UNDEFINED}]
\* updates of the fields the schema validates: a status, a priority and a
\* number of hours inside and outside what the schema allows (hours 0 and -5
\* are below the minimum), with or without a deadline dated yesterday
FieldPuts == [deadline : {UNDEFINED, ClientDate(FirstDay - 1)},
              status : {NoStatus, "Completed", "Archived"},
              start_time : {UNDEFINED},
              priority : {NoPriority, "Low", "Urgent"},
              hours : {UNDEFINED, 0, -5, 3}]

---------------------------------------------------------------------------
(* The local calendar *)

LocalDay(t) == (t + tz) \div 24
LocalHour(t) == (t + tz) % 24
\* the instant at which the local clock shows h:00 on local day d
LocalAt(d, h) == d * 24 + h - tz
\* new Date("YYYY-MM-DDT12:00:00.000Z")
NoonUTC(d) == d * 24 + 12

---------------------------------------------------------------------------
(* utils/dateUtils.js *)

createFixedDate(date) == NoonUTC(LocalDay(date))
getDateOnly(date) == LocalAt(LocalDay(date), 0)
getTodayDate == getDateOnly(now)
isBeforeToday(date) == getDateOnly(date) < getTodayDate

---------------------------------------------------------------------------
(* routes/tasks.js: helpers *)

\* "todayDate" of the handlers: today 04:00 local, or yesterday 04:00 local
\* while the local clock is before 04:00
graceToday ==
    LocalAt(LocalDay(now) - (IF LocalHour(now) < 4 THEN 1 ELSE 0), 4)

\* date.setHours(4, 0, 0, 0)
setHours4(date) == LocalAt(LocalDay(date), 4)

checkTaskExpired(task) ==
    setHours4(task.deadline) < graceToday /\ task.status # "Expired"

processDate(date, isToday) ==
    IF isToday /\ LocalDay(date) = LocalDay(now)
    THEN now
    ELSE NoonUTC(LocalDay(date))

validateStartTime(status, start_time, oldStatus) ==
    IF start_time # UNDEFINED /\ start_time # NULL
    THEN IF LocalDay(start_time) = LocalDay(now)
         THEN now
         ELSE NoonUTC(LocalDay(start_time))
    ELSE IF status = "In Progress" /\ oldStatus # "In Progress"
         THEN now
         ELSE start_time

\* the tasks the per-request middleware selects for user u
autoUpdateSelect(ts, u) ==
    {i \in DOMAIN ts : /\ ts[i].user = u
                       /\ ts[i].deadline < graceToday
                       /\ ts[i].status # "Expired"}

\* a middleware that also takes user u's tasks out of Expired once their
\* deadline is no longer past
autoUpdateExpiredStatusReverts(ts, u) ==
    [i \in DOMAIN ts |->
        IF i \in autoUpdateSelect(ts, u)
        THEN [ts[i] EXCEPT !.status = "Expired"]
        ELSE IF ts[i].user = u /\ ts[i].status = "Expired" /\ ts[i].deadline >= graceToday
        THEN [ts[i] EXCEPT !.status = "Pending"]
        ELSE ts[i]]

\* the collection after the middleware ran for user u
autoUpdateExpiredStatus(ts, u) ==
    [i \in DOMAIN ts |->
        IF i \in autoUpdateSelect(ts, u)
        THEN [ts[i] EXCEPT !.status = "Expired"]
        ELSE ts[i]]

---------------------------------------------------------------------------
(* routes/tasks.js: what each handler computes.  A result is the status    *)
(* code of the answer together with what the handler writes.               *)

\* POST /api/tasks: the document the handler saves
postDoc(caller, body) ==
    LET requested == IF body.status = NoStatus THEN "Pending" ELSE body.status
        deadlineDate == processDate(body.deadline, TRUE)
        initialStatus ==
            IF setHours4(deadlineDate) < graceToday THEN "Expired"
            ELSE IF requested = "Expired" THEN "Pending"
            ELSE requested
        fixedStartTime ==
            IF body.start_time # UNDEFINED /\ body.start_time # NULL
            THEN processDate(body.start_time, TRUE)
            ELSE IF initialStatus = "In Progress" THEN now
            ELSE NULL
    IN  [user |-> caller, deadline |-> deadlineDate,
         status |-> initialStatus, start_time |-> fixedStartTime,
         priority |-> body.priority, hours |-> body.hours,
         createdAt |-> now]

\* !priority || !deadline || !hours of the create handler (details, a text
\* that decides nothing else, is always sent)
postCode(body) ==
    IF body.priority = NoPriority \/ body.deadline = UNDEFINED
          \/ body.hours \in {UNDEFINED, NULL, 0}
    THEN 400
    ELSE 200

\* PUT /api/tasks/:id: the document after $set taskFields
putDoc(task, body) ==
    LET setsStatus == body.status # NoStatus /\ body.status # "Expired"
        deadline ==
            IF body.deadline # UNDEFINED
            THEN processDate(body.deadline, TRUE)
            ELSE task.deadline
        start_time ==
            IF body.start_time # UNDEFINED
            THEN IF body.start_time = NULL
                 THEN NULL
                 ELSE processDate(body.start_time, TRUE)
            ELSE IF setsStatus
                 THEN validateStartTime(body.status, task.start_time, task.status)
                 ELSE task.start_time
        requested == IF setsStatus THEN body.status ELSE task.status
        status ==
            IF body.deadline # UNDEFINED
            THEN IF setHours4(deadline) < graceToday THEN "Expired" ELSE requested
            ELSE IF setHours4(task.deadline) < graceToday /\ task.status # "Expired"
                 THEN "Expired"
                 ELSE requested
    IN  [task EXCEPT !.deadline = deadline, !.status = status,
                     !.start_time = start_time,
                     !.priority = IF body.priority # NoPriority THEN body.priority ELSE @,
                     !.hours = IF body.hours \notin {UNDEFINED, NULL, 0}
                               THEN body.hours ELSE @]

\* the update validators of models/Task.js on a document that $set wrote
\* (findOneAndUpdate with runValidators: true)
runValidators(doc) ==
    /\ doc.status \in Statuses
    /\ doc.priority \in Priorities
    /\ doc.hours >= 1

\* accessCode without the comparison of task.user with req.user.id
accessCodeNoOwner(ts, caller, id) ==
    IF id \notin DOMAIN ts THEN 404 ELSE 200

\* the ownership check shared by GET, PUT and DELETE /api/tasks/:id
accessCode(ts, caller, id) ==
    IF id \notin DOMAIN ts THEN 404
    ELSE IF ts[id].user # caller THEN 401
    ELSE 200

\* a ValidationError of findOneAndUpdate lands in the catch block: 500
putResult(ts, caller, id, body) ==
    LET access == accessCode(ts, caller, id)
        code == IF access # 200 THEN access
                ELSE IF ~runValidators(putDoc(ts[id], body)) THEN 500
                ELSE 200
    IN  [code |-> code,
         tasks |-> IF code = 200
                   THEN [ts EXCEPT ![id] = putDoc(ts[id], body)]
                   ELSE ts]

\* GET /api/tasks/:id
getResult(ts, caller, id) ==
    LET code == accessCode(ts, caller, id)
    IN  [code |-> code,
         tasks |-> IF code = 200 /\ checkTaskExpired(ts[id])
                   THEN [ts EXCEPT ![id].status = "Expired"]
                   ELSE ts,
         ids |-> IF code = 200 THEN {id} ELSE {}]

\* GET /api/tasks: the middleware, then the query
listResult(ts, caller, statusFilter) ==
    LET swept == autoUpdateExpiredStatus(ts, caller)
    IN  [code |-> 200,
         tasks |-> swept,
         ids |-> {i \in DOMAIN swept :
                    /\ swept[i].user = caller
                    /\ (statusFilter = NoStatus \/ swept[i].status = statusFilter)}]

\* the query of GET /api/tasks; a filter that is not given is the empty set
listMatches(task, caller, statusFilter, priorityFilter) ==
    /\ task.user = caller
    /\ (statusFilter # {} => task.status \in statusFilter)
    /\ (priorityFilter # {} => task.priority \in priorityFilter)

\* the list handler without query.priority
listQueryNoPriority(ts, caller, statusFilter, priorityFilter) ==
    LET swept == autoUpdateExpiredStatus(ts, caller)
        found == {i \in DOMAIN swept : listMatches(swept[i], caller, statusFilter, {})}
    IN  [code |-> 200, tasks |-> swept, ids |-> found, total |-> Cardinality(found)]

\* GET /api/tasks with its status and priority filters: the middleware,
\* Task.countDocuments(query) and Task.find(query), before sort, skip and limit
listQuery(ts, caller, statusFilter, priorityFilter) ==
    LET swept == autoUpdateExpiredStatus(ts, caller)
        found == {i \in DOMAIN swept :
                    listMatches(swept[i], caller, statusFilter, priorityFilter)}
    IN  [code |-> 200, tasks |-> swept, ids |-> found, total |-> Cardinality(found)]

\* batchFound without user: req.user.id in the query
batchFoundAnyUser(ts, caller, taskIds) ==
    taskIds \cap DOMAIN ts

\* PUT /api/tasks/batch-update/status
batchFound(ts, caller, taskIds) ==
    {i \in taskIds \cap DOMAIN ts : ts[i].user = caller}

\* one task after the batch handler's write for it, made at instant t
\* (currentTime = new Date() inside the loop)
batchDocAt(task, status, t) ==
    IF status = "Pending"
    THEN [task EXCEPT !.status = status, !.start_time = NULL]
    ELSE IF status = "In Progress" /\ task.status # "In Progress"
    THEN [task EXCEPT !.status = status, !.start_time = t]
    ELSE [task EXCEPT !.status = status]

batchDoc(task, status) == batchDocAt(task, status, now)

\* the collection after a run of the batch handler at instant t that wrote
\* the tasks in done and then ended: done is all the tasks found when the
\* run succeeds, fewer when a store call rejected part-way
batchRunAt(ts, caller, taskIds, status, done, t) ==
    [i \in DOMAIN ts |->
        IF i \in done \cap batchFound(ts, caller, taskIds)
        THEN batchDocAt(ts[i], status, t)
        ELSE ts[i]]

\* the msg of the batch handler's answer
batchMsg(found, taskIds, status) ==
    IF taskIds = {} \/ status = NoStatus
    THEN "Please provide valid task ID array and status"
    ELSE IF status = "Expired"
    THEN "Not allowed to manually set tasks to Expired status"
    ELSE IF found = {} THEN "No specified tasks found"
    ELSE "Task status updated"

\* the batch handler if Expired passed its checks of the status
batchResultTakesExpired(ts, caller, taskIds, status) ==
    LET found == batchFound(ts, caller, taskIds)
        code == IF taskIds = {} \/ status = NoStatus THEN 400
                ELSE IF found = {} THEN 404
                ELSE 200
    IN  [code |-> code,
         msg |-> batchMsg(found, taskIds, status),
         tasks |-> IF code = 200
                   THEN [i \in DOMAIN ts |->
                            IF i \in found THEN batchDoc(ts[i], status) ELSE ts[i]]
                   ELSE ts,
         ids |-> IF code = 200 THEN found ELSE {}]

batchResult(ts, caller, taskIds, status) ==
    LET found == batchFound(ts, caller, taskIds)
        code == IF taskIds = {} \/ status = NoStatus THEN 400
                ELSE IF status = "Expired" THEN 400
                ELSE IF found = {} THEN 404
                ELSE 200
    IN  [code |-> code,
         msg |-> batchMsg(found, taskIds, status),
         tasks |-> IF code = 200
                   THEN [i \in DOMAIN ts |->
                            IF i \in found THEN batchDoc(ts[i], status) ELSE ts[i]]
                   ELSE ts,
         ids |-> IF code = 200 THEN found ELSE {}]

\* the delete handler without the comparison of task.user with req.user.id
deleteResultNoOwner(ts, caller, id) ==
    LET code == accessCodeNoOwner(ts, caller, id)
    IN  [code |-> code,
         tasks |-> IF code = 200
                   THEN [i \in DOMAIN ts \ {id} |-> ts[i]]
                   ELSE ts]

\* DELETE /api/tasks/:id
deleteResult(ts, caller, id) ==
    LET code == accessCode(ts, caller, id)
    IN  [code |-> code,
         tasks |-> IF code = 200
                   THEN [i \in DOMAIN ts \ {id} |-> ts[i]]
                   ELSE ts]

---------------------------------------------------------------------------
(* server.js: the hourly job *)

updateExpiredSelect(ts) ==
    {i \in DOMAIN ts : ts[i].deadline < now /\ ts[i].status # "Expired"}

updateExpiredTasks(ts) ==
    [i \in DOMAIN ts |->
        IF i \in updateExpiredSelect(ts)
        THEN [ts[i] EXCEPT !.status = "Expired"]
        ELSE ts[i]]

---------------------------------------------------------------------------
(* utils/taskUtils.js *)

isTaskExpired(task) ==
    IF task.status = "Expired"
    THEN FALSE
    ELSE getDateOnly(task.deadline) < getTodayDate

updateExpiredForUserSelect(ts, userId) ==
    {i \in DOMAIN ts : /\ ts[i].user = userId
                       /\ ts[i].deadline < getTodayDate
                       /\ ts[i].status # "Expired"}

\* [count, tasks]: the number returned and the collection afterwards
updateExpiredTasksForUser(ts, userId) ==
    LET tasksToUpdate == updateExpiredForUserSelect(ts, userId)
    IN  [count |-> Cardinality(tasksToUpdate),
         tasks |-> [i \in DOMAIN ts |->
                      IF i \in tasksToUpdate
                      THEN [ts[i] EXCEPT !.status = "Expired"]
                      ELSE ts[i]]]

\* processStartTime throws 'Start time cannot be earlier than today'
Thrown == -3

\* taskUtils.processStartTime
processStartTime(status, currentStartTime, oldStatus) ==
    IF status = "Pending"
    THEN NULL
    ELSE IF status = "In Progress" /\ currentStartTime \notin {NULL, UNDEFINED}
    THEN IF getDateOnly(currentStartTime) < getTodayDate
         THEN Thrown
         ELSE createFixedDate(currentStartTime)
    ELSE IF status = "In Progress" /\ oldStatus # "In Progress"
    THEN createFixedDate(now)
    ELSE IF currentStartTime \notin {NULL, UNDEFINED}
    THEN createFixedDate(currentStartTime)
    ELSE currentStartTime

\* taskUtils.validateTaskUpdate: the validated update fields (UNDEFINED and
\* NoStatus stand for a field that is not in the result), thrown when
\* processStartTime threw.  The result starts as { ...updates }: every other
\* field of updates is in it as it came.
validateTaskUpdate(task, updates) ==
    LET deadline ==
            IF updates.deadline # UNDEFINED
            THEN createFixedDate(updates.deadline)
            ELSE UNDEFINED
        byDeadline ==
            IF updates.deadline # UNDEFINED
            THEN IF isBeforeToday(deadline) THEN "Expired" ELSE updates.status
            ELSE IF isBeforeToday(task.deadline) /\ task.status # "Expired"
                 THEN "Expired"
                 ELSE updates.status
        setsStatus == updates.status # NoStatus /\ updates.status # "Expired"
        status == IF setsStatus THEN updates.status ELSE byDeadline
        derived ==
            IF setsStatus /\ updates.start_time = UNDEFINED
            THEN processStartTime(updates.status, task.start_time, task.status)
            ELSE updates.start_time
        newStatus == IF status # NoStatus THEN status ELSE task.status
        start_time ==
            IF updates.start_time # UNDEFINED
            THEN IF newStatus = "Pending"
                 THEN NULL
                 ELSE IF updates.start_time # NULL
                      THEN createFixedDate(updates.start_time)
                      ELSE NULL
            ELSE derived
    IN  [thrown |-> derived = Thrown, deadline |-> deadline,
         status |-> status, start_time |-> start_time] @@ updates

---------------------------------------------------------------------------
(* The sweeps when a store call rejects.  A rejected Task.find or          *)
(* Task.updateMany writes nothing.                                         *)

Faults == {"find", "updateMany"}

\* the store call that rejects when f is injected into a sweep that selects
\* the tasks selected: updateMany is only called for a non-empty selection
failedCall(selected, f) ==
    IF f = "find" THEN "find"
    ELSE IF f = "updateMany" /\ selected # {} THEN "updateMany"
    ELSE "none"

\* taskUtils.updateExpiredTasksForUser: try { ... } catch (err) { return 0 }
updateExpiredTasksForUserOn(ts, userId, f) ==
    IF failedCall(updateExpiredForUserSelect(ts, userId), f) = "none"
    THEN [raised |-> FALSE,
          count |-> updateExpiredTasksForUser(ts, userId).count,
          tasks |-> updateExpiredTasksForUser(ts, userId).tasks]
    ELSE [raised |-> FALSE, count |-> 0, tasks |-> ts]

\* the middleware with a catch that passes the error on instead of calling next()
autoUpdateExpiredStatusRaises(ts, u, f) ==
    IF failedCall(autoUpdateSelect(ts, u), f) = "none"
    THEN [raised |-> FALSE, nextCalls |-> 1, tasks |-> autoUpdateExpiredStatus(ts, u)]
    ELSE [raised |-> TRUE, nextCalls |-> 0, tasks |-> ts]

\* the middleware autoUpdateExpiredStatus: next() at the end of the try
\* block, next() in the catch block
autoUpdateExpiredStatusOn(ts, u, f) ==
    IF failedCall(autoUpdateSelect(ts, u), f) = "none"
    THEN [raised |-> FALSE, nextCalls |-> 1, tasks |-> autoUpdateExpiredStatus(ts, u)]
    ELSE [raised |-> FALSE, nextCalls |-> 1, tasks |-> ts]

\* GET /api/tasks behind the middleware: the handler runs once per next()
listResultOn(ts, caller, statusFilter, f) ==
    LET m == autoUpdateExpiredStatusOn(ts, caller, f)
    IN  [code |-> IF m.raised \/ m.nextCalls # 1 THEN 500 ELSE 200,
         tasks |-> m.tasks,
         ids |-> IF m.raised \/ m.nextCalls # 1
                 THEN {}
                 ELSE {i \in DOMAIN m.tasks :
                         /\ m.tasks[i].user = caller
                         /\ (statusFilter = NoStatus
                               \/ m.tasks[i].status = statusFilter)}]

---------------------------------------------------------------------------
(* The state machine: one action per request or job, each the whole        *)
(* handler.                                                                *)

Idle == [op |-> "none", code |-> 0, ids |-> {}]

\* getNextValue without the $inc
getNextValueNoInc(c) == c

\* Counter.getNextValue: findOneAndUpdate with $inc: 1, upsert and new: true
\* takes the counter from c to the value it returns
getNextValue(c) == c + 1

\* the document with the taskId the pre('save') hook gave it
withTaskId(doc, taskId) == [taskId |-> taskId] @@ doc

\* newTask.save() as one step: the pre('save') hook takes the next counter
\* value as taskId, then the document is inserted
PostTask(caller, body) ==
    /\ nextId <= MaxTasks
    /\ IF postCode(body) = 200
       THEN /\ counter' = getNextValue(counter)
            /\ tasks' = [i \in DOMAIN tasks \cup {nextId} |->
                            IF i = nextId
                            THEN withTaskId(postDoc(caller, body), counter')
                            ELSE tasks[i]]
            /\ nextId' = nextId + 1
            /\ resp' = [op |-> "post", code |-> 200, ids |-> {nextId}]
       ELSE /\ resp' = [op |-> "post", code |-> 400, ids |-> {}]
            /\ UNCHANGED <<tasks, nextId, counter>>
    /\ fault' = "none"
    /\ UNCHANGED <<now, tz, flight>>

PutTask(caller, id, body) ==
    LET r == putResult(tasks, caller, id, body)
    IN  /\ tasks' = r.tasks
        /\ resp' = [op |-> "put", code |-> r.code,
                    ids |-> IF r.code = 200 THEN {id} ELSE {}]
        /\ fault' = "none"
        /\ UNCHANGED <<nextId, now, tz, counter, flight>>

GetTask(caller, id) ==
    LET r == getResult(tasks, caller, id)
    IN  /\ tasks' = r.tasks
        /\ resp' = [op |-> "get", code |-> r.code, ids |-> r.ids]
        /\ fault' = "none"
        /\ UNCHANGED <<nextId, now, tz, counter, flight>>

GetTasks(caller, statusFilter) ==
    LET r == listResult(tasks, caller, statusFilter)
    IN  /\ tasks' = r.tasks
        /\ resp' = [op |-> "list", code |-> r.code, ids |-> r.ids]
        /\ fault' = "none"
        /\ UNCHANGED <<nextId, now, tz, counter, flight>>

\* GET /api/tasks?status=...&priority=...
GetTasksFiltered(caller, statusFilter, priorityFilter) ==
    LET r == listQuery(tasks, caller, statusFilter, priorityFilter)
    IN  /\ tasks' = r.tasks
        /\ resp' = [op |-> "query", code |-> r.code, ids |-> r.ids, total |-> r.total]
        /\ fault' = "none"
        /\ UNCHANGED <<nextId, now, tz, counter, flight>>

BatchUpdateStatus(caller, taskIds, status) ==
    LET r == batchResult(tasks, caller, taskIds, status)
    IN  /\ tasks' = r.tasks
        /\ resp' = [op |-> "batch", code |-> r.code, ids |-> r.ids, msg |-> r.msg]
        /\ fault' = "none"
        /\ UNCHANGED <<nextId, now, tz, counter, flight>>

DeleteTask(caller, id) ==
    LET r == deleteResult(tasks, caller, id)
    IN  /\ tasks' = r.tasks
        /\ resp' = [op |-> "delete", code |-> r.code, ids |-> {}]
        /\ fault' = "none"
        /\ UNCHANGED <<nextId, now, tz, counter, flight>>

\* the setInterval job of server.js
IntervalSweep ==
    /\ tasks' = updateExpiredTasks(tasks)
    /\ resp' = [op |-> "interval", code |-> 0, ids |-> {}]
    /\ fault' = "none"
    /\ UNCHANGED <<nextId, now, tz, counter, flight>>

\* a call of taskUtils.updateExpiredTasksForUser; code carries the count returned
SweepForUser(userId) ==
    LET r == updateExpiredTasksForUser(tasks, userId)
    IN  /\ tasks' = r.tasks
        /\ resp' = [op |-> "sweep", code |-> r.count, ids |-> {}]
        /\ fault' = "none"
        /\ UNCHANGED <<nextId, now, tz, counter, flight>>

\* GET /api/tasks while the store call f of the middleware rejects
GetTasksFault(caller, statusFilter, f) ==
    LET r == listResultOn(tasks, caller, statusFilter, f)
    IN  /\ failedCall(autoUpdateSelect(tasks, caller), f) # "none"
        /\ tasks' = r.tasks
        /\ resp' = [op |-> "list", code |-> r.code, ids |-> r.ids]
        /\ fault' = failedCall(autoUpdateSelect(tasks, caller), f)
        /\ UNCHANGED <<nextId, now, tz, counter, flight>>

\* a call of taskUtils.updateExpiredTasksForUser while the store call f rejects
SweepForUserFault(userId, f) ==
    LET r == updateExpiredTasksForUserOn(tasks, userId, f)
    IN  /\ failedCall(updateExpiredForUserSelect(tasks, userId), f) # "none"
        /\ tasks' = r.tasks
        /\ resp' = [op |-> "sweep", code |-> r.count, ids |-> {}]
        /\ fault' = failedCall(updateExpiredForUserSelect(tasks, userId), f)
        /\ UNCHANGED <<nextId, now, tz, counter, flight>>

\* the clock moves on to the next hour at which something happens
Tick ==
    /\ \E t \in ClockPoints :
          /\ t > now
          /\ \A u \in ClockPoints : u > now => t <= u
          /\ now' = t
    /\ resp' = Idle
    /\ fault' = "none"
    /\ UNCHANGED <<tasks, nextId, tz, counter, flight>>

---------------------------------------------------------------------------
(* Spec: one live document at a time, every shape of request, the clock    *)
(* moving from before 04:00 to the afternoon.                              *)

Init ==
    /\ tasks = <<>>
    /\ nextId = 1
    /\ now = FirstDay * 24 + 2
    /\ tz = 0
    /\ resp = Idle
    /\ counter = 0
    /\ fault = "none"
    /\ sweeping = {}
    /\ updating = {}
    /\ creating = {}
    /\ deleting = {}

AnyBody == [deadline |-> UNDEFINED, status |-> NoStatus, start_time |-> UNDEFINED,
            priority |-> NoPriority, hours |-> UNDEFINED]

\* creates of priority High; updates of the dates and the status, and
\* updates that carry one of status, priority and hours alone
SpecPosts == {b \in PostBodies : b.priority = "High"}
SpecPuts == PutBodies \cup
            {b \in FieldPuts :
                /\ b.deadline = UNDEFINED /\ b.hours # 3
                /\ \/ b.status # NoStatus /\ b.priority = NoPriority /\ b.hours = UNDEFINED
                   \/ b.status = NoStatus /\ b.priority # NoPriority /\ b.hours = UNDEFINED
                   \/ b.status = NoStatus /\ b.priority = NoPriority /\ b.hours # UNDEFINED}

Post == \E caller \in Users, body \in SpecPosts :
            DOMAIN tasks = {} /\ PostTask(caller, body)
Put == \E caller \in Users, id \in TaskIds :
            IF accessCode(tasks, caller, id) = 200
            THEN \E body \in SpecPuts : PutTask(caller, id, body)
            ELSE PutTask(caller, id, AnyBody)
Get == \E caller \in Users, id \in TaskIds : GetTask(caller, id)
List == \E caller \in Users, statusFilter \in Statuses \cup {NoStatus} :
            GetTasks(caller, statusFilter)
Batch == \E caller \in Users, taskIds \in SUBSET TaskIds,
            status \in Statuses \cup {NoStatus} :
            BatchUpdateStatus(caller, taskIds, status)
Delete == \E caller \in Users, id \in TaskIds : DeleteTask(caller, id)
Sweep == \E userId \in Users : SweepForUser(userId)
ListFault == \E caller \in Users, statusFilter \in Statuses \cup {NoStatus}, f \in Faults :
                GetTasksFault(caller, statusFilter, f)
SweepFault == \E userId \in Users, f \in Faults : SweepForUserFault(userId, f)

Next ==
    \/ Post
    \/ Put
    \/ Get
    \/ List
    \/ Batch
    \/ Delete
    \/ IntervalSweep
    \/ Sweep
    \/ ListFault
    \/ SweepFault
    \/ Tick

Spec == Init /\ [][Next]_vars

---------------------------------------------------------------------------
(* SpecStore: several documents of several users at once, in the afternoon *)
(* of the first day, with the requests narrowed to the ones that decide    *)
(* who may touch what: creates dated yesterday or tomorrow, and updates of *)
(* the status alone.                                                       *)

StorePosts == {b \in PostBodies : /\ b.deadline \in {ClientDate(FirstDay - 1),
                                                      ClientDate(FirstDay + 1)}
                                  /\ b.status \in {NoStatus, "In Progress"}
                                  /\ b.start_time = UNDEFINED}
StorePuts == {b \in PutBodies : b.deadline = UNDEFINED /\ b.start_time = UNDEFINED}

InitStore ==
    /\ tasks = <<>>
    /\ nextId = 1
    /\ now = FirstDay * 24 + 13
    /\ tz = 0
    /\ resp = Idle
    /\ counter = 0
    /\ fault = "none"
    /\ sweeping = {}
    /\ updating = {}
    /\ creating = {}
    /\ deleting = {}

\* the comma-separated lists of query.status and query.priority
ListStatusFilters == {f \in SUBSET Statuses : Cardinality(f) <= 2}
ListPriorityFilters == SUBSET {"High", "Low"}

StorePost == \E caller \in Users, body \in StorePosts : PostTask(caller, body)
ListFiltered == \E caller \in Users,
                   statusFilter \in {{}, {"Pending", "In Progress"}},
                   priorityFilter \in {{"High"}, {"Low"}} :
                   GetTasksFiltered(caller, statusFilter, priorityFilter)
StorePut == \E caller \in Users, id \in TaskIds, body \in StorePuts :
                PutTask(caller, id, body)

NextStore ==
    \/ StorePost
    \/ StorePut
    \/ Get
    \/ List
    \/ ListFiltered
    \/ Batch
    \/ Delete
    \/ IntervalSweep
    \/ Sweep

SpecStore == InitStore /\ [][NextStore]_vars

---------------------------------------------------------------------------
(* SpecFlight: the operations as the steps they take in the store.  Every  *)
(* await is a point where other requests and jobs run: a sweep is a        *)
(* Task.find and later a Task.updateMany, an update is a read and later a  *)
(* write of the fields computed from what was read, a create is a          *)
(* Counter.getNextValue and later the insert.  The clock stands in the     *)
(* afternoon of the first day.                                             *)

\* server.js, the job that compares with the start of today
updateExpiredStartOfDaySelect(ts) ==
    {i \in DOMAIN ts : ts[i].deadline < getTodayDate /\ ts[i].status # "Expired"}

\* Task.updateMany of a sweep sw = [kind, user, ids]: the job filters on
\* _id and status, updateExpiredTasksForUser on _id and user
sweepWrite(ts, sw) ==
    [i \in DOMAIN ts |->
        IF /\ i \in sw.ids
           /\ (sw.kind = "interval" => ts[i].status # "Expired")
           /\ (sw.kind = "user" => ts[i].user = sw.user)
        THEN [ts[i] EXCEPT !.status = "Expired"]
        ELSE ts[i]]

\* taskFields of PUT /api/tasks/:id; UNDEFINED and NoStatus stand for a field
\* that is not in $set
putFields(task, body) ==
    LET setsStatus == body.status # NoStatus /\ body.status # "Expired"
        requested == IF setsStatus THEN body.status ELSE NoStatus
    IN  [deadline |-> IF body.deadline # UNDEFINED
                      THEN processDate(body.deadline, TRUE)
                      ELSE UNDEFINED,
         status |-> IF body.deadline # UNDEFINED
                    THEN IF setHours4(processDate(body.deadline, TRUE)) < graceToday
                         THEN "Expired"
                         ELSE requested
                    ELSE IF setHours4(task.deadline) < graceToday
                            /\ task.status # "Expired"
                         THEN "Expired"
                         ELSE requested,
         start_time |-> IF body.start_time # UNDEFINED
                        THEN IF body.start_time = NULL
                             THEN NULL
                             ELSE processDate(body.start_time, TRUE)
                        ELSE IF setsStatus
                             THEN validateStartTime(body.status, task.start_time,
                                                    task.status)
                             ELSE UNDEFINED,
         priority |-> body.priority,
         hours |-> IF body.hours \in {NULL, 0} THEN UNDEFINED ELSE body.hours]

\* the $set of the batch handler for one task, from the status it read
batchFields(task, status) ==
    [deadline |-> UNDEFINED,
     status |-> status,
     start_time |-> IF status = "Pending" THEN NULL
                    ELSE IF status = "In Progress" /\ task.status # "In Progress"
                    THEN now
                    ELSE UNDEFINED,
     priority |-> NoPriority,
     hours |-> UNDEFINED]

\* { $set: fields } on one document
applyFields(doc, fields) ==
    [doc EXCEPT
        !.deadline = IF fields.deadline # UNDEFINED THEN fields.deadline ELSE @,
        !.status = IF fields.status # NoStatus THEN fields.status ELSE @,
        !.start_time = IF fields.start_time # UNDEFINED THEN fields.start_time ELSE @,
        !.priority = IF fields.priority # NoPriority THEN fields.priority ELSE @,
        !.hours = IF fields.hours # UNDEFINED THEN fields.hours ELSE @]

InFlight == Cardinality(sweeping) + Cardinality(updating) + Cardinality(creating)
               + Cardinality({d \in deleting : d.code = 0})

FlightPosts == {b \in PostBodies : /\ b.deadline \in {ClientDate(FirstDay - 1),
                                                       ClientDate(FirstDay + 1)}
                                   /\ b.status = NoStatus
                                   /\ b.start_time = UNDEFINED
                                   /\ b.priority = "High"}
\* updates that move the deadline and nothing else
FlightPuts == {b \in PutBodies : /\ b.deadline = ClientDate(FirstDay + 1)
                                 /\ b.status = NoStatus
                                 /\ b.start_time = UNDEFINED}

\* new Task(...).save() up to the end of the pre('save') hook
SaveBegin(caller, body) ==
    /\ nextId <= MaxTasks
    /\ InFlight < MaxFlight
    /\ counter' = getNextValue(counter)
    /\ creating' = creating \cup
                      {[id |-> nextId, doc |-> withTaskId(postDoc(caller, body), counter')]}
    /\ nextId' = nextId + 1
    /\ resp' = Idle
    /\ fault' = "none"
    /\ UNCHANGED <<tasks, now, tz, sweeping, updating, deleting>>

\* the insert of save(), and the answer
SaveEnd(c) ==
    /\ tasks' = [i \in DOMAIN tasks \cup {c.id} |->
                    IF i = c.id THEN c.doc ELSE tasks[i]]
    /\ creating' = creating \ {c}
    /\ resp' = [op |-> "post", code |-> 200, ids |-> {c.id}]
    /\ fault' = "none"
    /\ UNCHANGED <<nextId, now, tz, counter, sweeping, updating, deleting>>

\* the Task.find of a sweep; a sweep that finds nothing ends here
SweepSelect(kind, userId) ==
    LET ids == IF kind = "interval"
               THEN updateExpiredStartOfDaySelect(tasks)
               ELSE updateExpiredForUserSelect(tasks, userId)
    IN  /\ InFlight < MaxFlight
        /\ sweeping' = IF ids = {}
                        THEN sweeping
                        ELSE sweeping \cup {[kind |-> kind, user |-> userId, ids |-> ids]}
        /\ resp' = IF ids = {} THEN [op |-> "sweep", code |-> 0, ids |-> {}] ELSE Idle
        /\ fault' = "none"
        /\ UNCHANGED <<tasks, nextId, now, tz, counter, updating, creating, deleting>>

\* the Task.updateMany of a sweep
SweepWrite(sw) ==
    /\ tasks' = sweepWrite(tasks, sw)
    /\ sweeping' = sweeping \ {sw}
    /\ resp' = [op |-> "sweep",
                code |-> Cardinality({i \in DOMAIN tasks : tasks'[i] # tasks[i]}),
                ids |-> {}]
    /\ fault' = "none"
    /\ UNCHANGED <<nextId, now, tz, counter, updating, creating, deleting>>

\* PUT /api/tasks/:id up to its findOneAndUpdate
PutRead(caller, id, body) ==
    /\ InFlight < MaxFlight
    /\ accessCode(tasks, caller, id) = 200
    /\ updating' = updating \cup
                      {[op |-> "put", id |-> id, fields |-> putFields(tasks[id], body)]}
    /\ resp' = Idle
    /\ fault' = "none"
    /\ UNCHANGED <<tasks, nextId, now, tz, counter, sweeping, creating, deleting>>

\* PUT /api/tasks/batch-update/status for one id, up to the write for that
\* task: Task.find, and for In Progress the Task.findById of the loop
BatchRead(caller, id, status) ==
    /\ InFlight < MaxFlight
    /\ batchResult(tasks, caller, {id}, status).code = 200
    /\ updating' = updating \cup
                      {[op |-> "batch", id |-> id, fields |-> batchFields(tasks[id], status)]}
    /\ resp' = Idle
    /\ fault' = "none"
    /\ UNCHANGED <<tasks, nextId, now, tz, counter, sweeping, creating, deleting>>

\* the write of an update and its answer
UpdateWrite(up) ==
    /\ tasks' = [i \in DOMAIN tasks |->
                    IF i = up.id THEN applyFields(tasks[i], up.fields) ELSE tasks[i]]
    /\ updating' = updating \ {up}
    /\ resp' = [op |-> up.op, code |-> 200, ids |-> {up.id} \cap DOMAIN tasks]
    /\ fault' = "none"
    /\ UNCHANGED <<nextId, now, tz, counter, sweeping, creating, deleting>>

FlightSaveBegin == \E caller \in Users, body \in FlightPosts : SaveBegin(caller, body)
FlightSaveEnd == \E c \in creating : SaveEnd(c)
FlightSweepSelect ==
    \/ SweepSelect("interval", "*")
    \/ \E userId \in Users : SweepSelect("user", userId)
FlightSweepWrite == \E sw \in sweeping : SweepWrite(sw)
FlightPutRead == \E caller \in Users, id \in TaskIds, body \in FlightPuts :
                    PutRead(caller, id, body)
FlightBatchRead == \E caller \in Users, id \in TaskIds,
                      status \in {"Pending", "In Progress", "Completed"} :
                      BatchRead(caller, id, status)
FlightUpdateWrite == \E up \in updating : UpdateWrite(up)

NextFlight ==
    \/ FlightSaveBegin
    \/ FlightSaveEnd
    \/ FlightSweepSelect
    \/ FlightSweepWrite
    \/ FlightPutRead
    \/ FlightBatchRead
    \/ FlightUpdateWrite

SpecFlight == InitStore /\ [][NextFlight]_vars

---------------------------------------------------------------------------
(* SpecDelete: the delete handler as its two store calls, among creates    *)
(* and updates in flight.  deleting keeps every delete request of an owner *)
(* with its answer.                                                        *)

\* the answer without if (!result)
deleteWriteCodeNoCheck(ts, id) == 200

\* result = await Task.findByIdAndDelete(taskId): 404 when result is null
deleteWriteCode(ts, id) == IF id \in DOMAIN ts THEN 200 ELSE 404

\* DELETE /api/tasks/:id up to its Task.findByIdAndDelete: Task.findById and
\* the ownership check; 404 and 401 end the request here
DeleteRead(caller, id) ==
    LET code == accessCode(tasks, caller, id)
        req == Cardinality(deleting) + 1
        own == code = 200 \/ (code = 404 /\ id < nextId)
    IN  /\ InFlight < MaxFlight
        /\ own => req <= MaxDeletes
        /\ deleting' = IF own
                        THEN deleting \cup {[req |-> req, id |-> id, found |-> code = 200,
                                             code |-> IF code = 200 THEN 0 ELSE code]}
                        ELSE deleting
        /\ resp' = IF code = 200 THEN Idle ELSE [op |-> "delete", code |-> code, ids |-> {}]
        /\ fault' = "none"
        /\ UNCHANGED <<tasks, nextId, now, tz, counter, sweeping, updating, creating>>

\* Task.findByIdAndDelete and the answer
DeleteWrite(d) ==
    /\ d.code = 0
    /\ tasks' = [i \in DOMAIN tasks \ {d.id} |-> tasks[i]]
    /\ deleting' = (deleting \ {d}) \cup {[d EXCEPT !.code = deleteWriteCode(tasks, d.id)]}
    /\ resp' = [op |-> "delete", code |-> deleteWriteCode(tasks, d.id), ids |-> {}]
    /\ fault' = "none"
    /\ UNCHANGED <<nextId, now, tz, counter, sweeping, updating, creating>>

DeleteBegin == \E caller \in Users, id \in TaskIds : DeleteRead(caller, id)
DeleteEnd == \E d \in deleting : DeleteWrite(d)

NextDelete ==
    \/ FlightSaveBegin
    \/ FlightSaveEnd
    \/ FlightPutRead
    \/ FlightUpdateWrite
    \/ DeleteBegin
    \/ DeleteEnd

SpecDelete == InitStore /\ [][NextDelete]_vars

---------------------------------------------------------------------------
(* SpecDates: createFixedDate on a server at any UTC offset.  The clock     *)
(* runs through every hour of the first day; the date fixed last is        *)
(* resp.date.                                                              *)

Offsets == (0 - MaxOffset)..MaxOffset
\* every hour of the days around the first day
Instants == ((FirstDay - 1) * 24)..((FirstDay + 2) * 24 - 1)

InitDates ==
    /\ tasks = <<>>
    /\ nextId = 1
    /\ now = FirstDay * 24
    /\ tz \in Offsets
    /\ resp = Idle
    /\ counter = 0
    /\ fault = "none"
    /\ sweeping = {}
    /\ updating = {}
    /\ creating = {}
    /\ deleting = {}

\* dateUtils.createFixedDate(new Date())
FixDate ==
    /\ resp' = [op |-> "fixed", code |-> 0, ids |-> {}, date |-> createFixedDate(now)]
    /\ UNCHANGED <<tasks, nextId, now, tz, counter, fault, flight>>

\* dateUtils.createFixedDate of a date that createFixedDate returned
FixAgain ==
    /\ resp.op = "fixed"
    /\ resp' = [op |-> "fixed again", code |-> 0, ids |-> {},
                date |-> createFixedDate(resp.date)]
    /\ UNCHANGED <<tasks, nextId, now, tz, counter, fault, flight>>

\* an hour passes
Hour ==
    /\ now + 1 < (FirstDay + 1) * 24
    /\ now' = now + 1
    /\ resp' = Idle
    /\ UNCHANGED <<tasks, nextId, tz, counter, fault, flight>>

NextDates ==
    \/ FixDate
    \/ FixAgain
    \/ Hour

SpecDates == InitDates /\ [][NextDates]_vars

---------------------------------------------------------------------------
(* Claims *)

\* the requests that reach the handler body
ValidPosts == {b \in PostBodies : postCode(b) = 200}
OwnPuts == {<<i, b>> : i \in DOMAIN tasks, b \in PutBodies}

\* C1: every stored task whose status is Pending has start_time = null
C1_PendingHasNoStartTime ==
    \A i \in DOMAIN tasks :
        tasks[i].status = "Pending" => tasks[i].start_time = NULL

\* C2: a create or update that carries status Expired while the
\* effective deadline is not before today never stores status Expired
C2_ExpiredRequestNeverStored ==
    /\ \A u \in Users, b \in ValidPosts :
          (b.status = "Expired" /\ ~isBeforeToday(postDoc(u, b).deadline))
              => postDoc(u, b).status # "Expired"
    /\ \A p \in OwnPuts :
          (p[2].status = "Expired" /\ ~isBeforeToday(putDoc(tasks[p[1]], p[2]).deadline))
              => putDoc(tasks[p[1]], p[2]).status # "Expired"
    /\ \A p \in OwnPuts :
          LET v == validateTaskUpdate(tasks[p[1]], p[2])
              effective == IF v.deadline # UNDEFINED THEN v.deadline
                           ELSE tasks[p[1]].deadline
          IN  (p[2].status = "Expired" /\ ~isBeforeToday(effective))
                  => v.status # "Expired"

\* C3: a create or update whose effective deadline is dated before today
\* stores status Expired
C3_PastDeadlineStoresExpired ==
    /\ \A u \in Users, b \in ValidPosts :
          isBeforeToday(postDoc(u, b).deadline) => postDoc(u, b).status = "Expired"
    /\ \A p \in OwnPuts :
          isBeforeToday(putDoc(tasks[p[1]], p[2]).deadline)
              => putDoc(tasks[p[1]], p[2]).status = "Expired"
    /\ \A p \in OwnPuts :
          LET v == validateTaskUpdate(tasks[p[1]], p[2])
              effective == IF v.deadline # UNDEFINED THEN v.deadline
                           ELSE tasks[p[1]].deadline
              status == IF v.status # NoStatus THEN v.status
                        ELSE tasks[p[1]].status
          IN  (~v.thrown /\ isBeforeToday(effective)) => status = "Expired"

\* C4: an update that sets In Progress with a start_time dated before today
\* is answered 400 and writes nothing
C4_PastStartTimeRejected ==
    \A p \in OwnPuts :
        (/\ p[2].status = "In Progress"
         /\ p[2].start_time # UNDEFINED /\ p[2].start_time # NULL
         /\ isBeforeToday(p[2].start_time))
            => /\ LET r == putResult(tasks, tasks[p[1]].user, p[1], p[2])
                  IN  r.code = 400 /\ r.tasks = tasks
               /\ validateTaskUpdate(tasks[p[1]], p[2]).thrown

\* C5: every stored task whose status is In Progress has a start_time
C5_InProgressHasStartTime ==
    \A i \in DOMAIN tasks :
        tasks[i].status = "In Progress" => tasks[i].start_time # NULL

\* C8: a step that makes a task Expired (or creates it Expired) does so only
\* when the task's deadline is dated before today
C8_ExpiredOnlyPastDeadline ==
    [][\A i \in DOMAIN tasks' :
          (/\ tasks'[i].status = "Expired"
           /\ (i \in DOMAIN tasks => tasks[i].status # "Expired"))
              => isBeforeToday(tasks'[i].deadline)]_vars

\* C9: the per-request sweep, the hourly job, the detail fetch and the
\* create/update deadline check select the same tasks: the ones whose
\* deadline is dated before the start of today
C9_SameExpiryBoundary ==
    \A i \in DOMAIN tasks :
        LET t == tasks[i]
            stale == isBeforeToday(t.deadline) /\ t.status # "Expired"
        IN  /\ (i \in autoUpdateSelect(tasks, t.user)) = stale
            /\ (i \in updateExpiredSelect(tasks)) = stale
            /\ checkTaskExpired(t) = stale
            /\ (setHours4(t.deadline) < graceToday /\ t.status # "Expired") = stale

\* task i is in collection ts exactly as it is stored now
Untouched(ts, i) == i \in DOMAIN ts /\ ts[i] = tasks[i]

\* C6: whatever user a asks for, a task of another user is neither returned
\* nor changed nor removed, and a's detail fetch, update and delete of it
\* are answered 404 or 401
C6_OwnershipIsolation ==
    \A a \in Users, i \in DOMAIN tasks :
        tasks[i].user # a =>
            /\ LET r == getResult(tasks, a, i)
               IN  r.code \in {401, 404} /\ r.ids = {} /\ r.tasks = tasks
            /\ \A b \in PutBodies :
                  LET r == putResult(tasks, a, i, b)
                  IN  r.code \in {401, 404} /\ r.tasks = tasks
            /\ LET r == deleteResult(tasks, a, i)
               IN  r.code \in {401, 404} /\ r.tasks = tasks
            /\ \A j \in TaskIds \ {i} :
                  /\ Untouched(getResult(tasks, a, j).tasks, i)
                  /\ Untouched(deleteResult(tasks, a, j).tasks, i)
                  /\ \A b \in PutBodies : Untouched(putResult(tasks, a, j, b).tasks, i)
            /\ \A f \in Statuses \cup {NoStatus} :
                  LET r == listResult(tasks, a, f)
                  IN  i \notin r.ids /\ Untouched(r.tasks, i)
            /\ \A ids \in SUBSET TaskIds, st \in Statuses \cup {NoStatus} :
                  LET r == batchResult(tasks, a, ids, st)
                  IN  i \notin r.ids /\ Untouched(r.tasks, i)

\* a user's update of somebody else's task has just been refused, and the
\* task is still there
C6_Witness ==
    /\ resp.op = "put" /\ resp.code = 401
    /\ \E i, j \in DOMAIN tasks : tasks[i].user # tasks[j].user

\* C7: a batch status update changes exactly the listed tasks of the caller,
\* and answers with exactly their ids
C7_BatchOnlyOwnListed ==
    \A a \in Users, ids \in SUBSET TaskIds \ {{}},
       st \in {"Pending", "In Progress", "Completed"} :
        LET owned == {i \in DOMAIN tasks : i \in ids /\ tasks[i].user = a}
            r == batchResult(tasks, a, ids, st)
        IN  /\ DOMAIN r.tasks = DOMAIN tasks
            /\ \A i \in owned : r.tasks[i].status = st
            /\ \A i \in DOMAIN tasks \ owned : r.tasks[i] = tasks[i]
            /\ r.ids = owned
            /\ r.code = IF owned = {} THEN 404 ELSE 200

\* a batch update has just changed one task and left the task of another
\* user alone
C7_Witness ==
    /\ resp.op = "batch" /\ resp.code = 200
    /\ \E i \in resp.ids, j \in DOMAIN tasks \ resp.ids :
          /\ tasks[i].user # tasks[j].user
          /\ tasks[i].status = "Completed" /\ tasks[j].status # "Completed"

\* C10: for every owner, a second sweep right after the first changes
\* nothing and counts nothing, and after the first every task of the owner
\* whose deadline is dated before today is Expired
C10_SweepTwiceSameAsOnce ==
    \A u \in Users :
        LET a1 == autoUpdateExpiredStatus(tasks, u)
            a2 == autoUpdateExpiredStatus(a1, u)
            r1 == updateExpiredTasksForUser(tasks, u)
            r2 == updateExpiredTasksForUser(r1.tasks, u)
        IN  /\ a2 = a1
            /\ r2.tasks = r1.tasks /\ r2.count = 0
            /\ \A i \in DOMAIN tasks :
                  (tasks[i].user = u /\ isBeforeToday(tasks[i].deadline))
                      => (a1[i].status = "Expired" /\ r1.tasks[i].status = "Expired")

C12_SweepWriteRechecksDeadline ==
    [][(\E sw \in sweeping : sweeping' = sweeping \ {sw})
          => \A i \in DOMAIN tasks :
                (tasks'[i].status = "Expired" /\ tasks[i].status # "Expired")
                    => isBeforeToday(tasks[i].deadline)]_vars

\* C13: whatever the interleaving of the reads and writes of concurrent
\* updates of a task, the stored task has no start_time while Pending and has
\* one while In Progress
C13_RacingUpdatesKeepStartTimeRules ==
    \A i \in DOMAIN tasks :
        /\ tasks[i].status = "Pending" => tasks[i].start_time = NULL
        /\ tasks[i].status = "In Progress" => tasks[i].start_time # NULL

\* the body {status: s}
StatusOnly(s) == [deadline |-> UNDEFINED, status |-> s, start_time |-> UNDEFINED,
                  priority |-> NoPriority, hours |-> UNDEFINED]

\* C14: for a task of the caller and a status s among Pending, In Progress
\* and Completed, the batch update of [t] to s and the single update of t
\* with {status: s} answer alike and leave t with the same status and the
\* same start_time
C14_BatchSameAsSingleUpdate ==
    \A i \in DOMAIN tasks, s \in {"Pending", "In Progress", "Completed"} :
        LET b == batchResult(tasks, tasks[i].user, {i}, s)
            p == putResult(tasks, tasks[i].user, i, StatusOnly(s))
        IN  /\ b.code = p.code
            /\ b.tasks[i].status = p.tasks[i].status
            /\ b.tasks[i].start_time = p.tasks[i].start_time

\* C15: a batch status update to Expired is answered 400 and changes no
\* task, whatever ids it lists
C15_BatchExpiredRejected ==
    \A a \in Users, ids \in SUBSET TaskIds :
        LET r == batchResult(tasks, a, ids, "Expired")
        IN  r.code = 400 /\ r.tasks = tasks /\ r.ids = {}

\* a batch update to Expired has just been refused while the caller owns a
\* task that is not Expired
C15_Witness ==
    /\ resp.op = "batch" /\ resp.code = 400
    /\ resp.msg = "Not allowed to manually set tasks to Expired status"
    /\ \E i \in DOMAIN tasks : tasks[i].status # "Expired"

\* C16: a single update {status: In Progress} of a task that is already In
\* Progress is answered 200 and leaves the stored start_time as it was
C16_ResendInProgressKeepsStartTime ==
    \A i \in DOMAIN tasks :
        tasks[i].status = "In Progress" =>
            /\ LET r == putResult(tasks, tasks[i].user, i, StatusOnly("In Progress"))
               IN  r.code = 200 /\ r.tasks[i].start_time = tasks[i].start_time
            /\ LET v == validateTaskUpdate(tasks[i], StatusOnly("In Progress"))
               IN  ~v.thrown /\ v.start_time = tasks[i].start_time

\* C17: a single update {status: In Progress} of a Pending task whose
\* deadline is not dated before today stores In Progress with start_time =
\* today at 12:00 UTC
C17_StartTimeIsTodayNoon ==
    \A i \in DOMAIN tasks :
        (tasks[i].status = "Pending" /\ ~isBeforeToday(tasks[i].deadline)) =>
            LET r == putResult(tasks, tasks[i].user, i, StatusOnly("In Progress"))
            IN  /\ r.code = 200
                /\ r.tasks[i].status = "In Progress"
                /\ r.tasks[i].start_time = createFixedDate(now)

\* C18: a change of status to Completed that carries no start_time, by
\* single update or by batch, leaves the stored start_time as it was
C18_CompletedKeepsStartTime ==
    \A i \in DOMAIN tasks :
        /\ putResult(tasks, tasks[i].user, i, StatusOnly("Completed")).tasks[i].start_time
              = tasks[i].start_time
        /\ batchResult(tasks, tasks[i].user, {i}, "Completed").tasks[i].start_time
              = tasks[i].start_time

\* an Expired task stays Expired under both sweeps, the hourly job, the
\* detail fetch and every single update that carries no status or Expired
ExpiredStays ==
    \A i \in DOMAIN tasks :
        tasks[i].status = "Expired" =>
            /\ \A u \in Users :
                  /\ autoUpdateExpiredStatus(tasks, u)[i].status = "Expired"
                  /\ updateExpiredTasksForUser(tasks, u).tasks[i].status = "Expired"
                  /\ getResult(tasks, u, i).tasks[i].status = "Expired"
                  /\ \A sf \in Statuses \cup {NoStatus} :
                        listResult(tasks, u, sf).tasks[i].status = "Expired"
            /\ updateExpiredTasks(tasks)[i].status = "Expired"
            /\ \A b \in PutBodies :
                  b.status \in {NoStatus, "Expired"} =>
                      /\ putDoc(tasks[i], b).status = "Expired"
                      /\ validateTaskUpdate(tasks[i], b).status \in {NoStatus, "Expired"}

\* C19: a task leaves Expired only in the answer to a single or batch update
\* (one that carries a status other than Expired, as ExpiredStays shows for
\* the single update); sweeps, the job, the detail fetch and updates without
\* a status keep it Expired
C19_ExpiredLeftOnlyByRequest ==
    /\ []ExpiredStays
    /\ [][\A i \in DOMAIN tasks \cap DOMAIN tasks' :
              (tasks[i].status = "Expired" /\ tasks'[i].status # "Expired")
                  => (resp'.op \in {"put", "batch"} /\ resp'.code = 200 /\ i \in resp'.ids)]_vars

\* an update has just moved the deadline of an Expired task to today or
\* later, and the task is still Expired
C19_Witness ==
    /\ resp.op = "put" /\ resp.code = 200
    /\ \E i \in resp.ids :
          tasks[i].status = "Expired" /\ ~isBeforeToday(tasks[i].deadline)

\* the taskIds handed out so far that are still known: of the stored tasks
\* and of the creations in flight
HandedOut ==
    {tasks[i].taskId : i \in DOMAIN tasks} \cup {c.doc.taskId : c \in creating}

\* C20: under every interleaving of creations the counter never decreases,
\* each getNextValue returns more than every value returned before, and no
\* two tasks have the same taskId
C20_CounterStrictlyIncreasing ==
    /\ [](/\ \A v \in HandedOut : v <= counter
          /\ Cardinality(HandedOut) = Cardinality(DOMAIN tasks) + Cardinality(creating))
    /\ [][/\ counter' >= counter
          /\ \A c \in creating' \ creating :
                c.doc.taskId > counter /\ \A v \in HandedOut : c.doc.taskId > v]_vars

\* two creations were in flight together and the one that took its taskId
\* first has just been inserted last
C20_Witness ==
    /\ resp.op = "post" /\ resp.ids = {1}
    /\ DOMAIN tasks = {1, 2}
    /\ tasks[1].taskId < tasks[2].taskId

\* C21: the detail fetch of an own task whose deadline is dated before today
\* and that is not Expired stores Expired and answers with it; every other
\* detail fetch writes nothing
C21_DetailFetchExpires ==
    \A u \in Users, i \in TaskIds :
        LET r == getResult(tasks, u, i)
        IN  IF /\ accessCode(tasks, u, i) = 200
               /\ isBeforeToday(tasks[i].deadline)
               /\ tasks[i].status # "Expired"
            THEN /\ r.code = 200
                 /\ r.tasks = [tasks EXCEPT ![i].status = "Expired"]
            ELSE r.tasks = tasks

\* C22: a single update of an own task that carries a status outside the
\* four statuses, hours below 1 or a priority outside High, Medium, Low is
\* answered 400 and leaves the stored task as it was
C22_InvalidFieldRejected ==
    \A i \in DOMAIN tasks, b \in FieldPuts :
        (\/ b.status \notin Statuses \cup {NoStatus}
         \/ b.hours # UNDEFINED /\ b.hours < 1
         \/ b.priority \notin Priorities \cup {NoPriority})
            => LET r == putResult(tasks, tasks[i].user, i, b)
               IN  r.code = 400 /\ r.tasks = tasks

\* update bodies that also carry a user and a createdAt
OwnerPuts ==
    {[user |-> u, createdAt |-> c] @@ StatusOnly(st) :
        u \in Users, c \in ClockPoints, st \in {NoStatus, "Completed"}}

\* no request, sweep or job changes the user or the createdAt of a stored task
OwnerKeptBySteps ==
    [][\A i \in DOMAIN tasks \cap DOMAIN tasks' :
          tasks'[i].user = tasks[i].user /\ tasks'[i].createdAt = tasks[i].createdAt]_vars

\* the single update handler stores the user and the createdAt it found,
\* whatever user and createdAt the body carries
OwnerKeptByPut ==
    \A i \in DOMAIN tasks, b \in OwnerPuts :
        LET r == putResult(tasks, tasks[i].user, i, b)
        IN  /\ r.code = 200
            /\ r.tasks[i].user = tasks[i].user
            /\ r.tasks[i].createdAt = tasks[i].createdAt

Deleted == {i \in TaskIds : i < nextId /\ i \notin DOMAIN tasks}

\* C25: the delete of an own task removes that task and nothing else, the
\* delete of an id that is not stored is answered 404 and the delete of
\* another user's task 401, both without a write; a removed task is in no
\* detail fetch and no list, and no later step stores it again
C25_DeleteRemovesExactlyThatTask ==
    /\ [](\A u \in Users, i \in TaskIds :
             LET r == deleteResult(tasks, u, i)
             IN  IF i \notin DOMAIN tasks THEN r.code = 404 /\ r.tasks = tasks
                 ELSE IF tasks[i].user # u THEN r.code = 401 /\ r.tasks = tasks
                 ELSE /\ r.code = 200
                      /\ DOMAIN r.tasks = DOMAIN tasks \ {i}
                      /\ \A j \in DOMAIN r.tasks : r.tasks[j] = tasks[j])
    /\ [](\A i \in Deleted, u \in Users :
             /\ getResult(tasks, u, i).code = 404 /\ getResult(tasks, u, i).ids = {}
             /\ \A sf \in ListStatusFilters : i \notin listQuery(tasks, u, sf, {}).ids)
    /\ [][\A i \in Deleted : i \notin DOMAIN tasks']_vars

\* the first of two tasks has just been deleted by its owner, and the second
\* task is still stored
C25_Witness ==
    /\ resp.op = "delete" /\ resp.code = 200
    /\ Deleted = {1} /\ DOMAIN tasks = {2}

\* C26: at every UTC offset of the server from -12 to +12 hours and for
\* every instant d, createFixedDate(d) is on the calendar date of d
\* (getDateOnly(createFixedDate(d)) = getDateOnly(d)) and createFixedDate of
\* it is the same instant again
C26_FixedDateKeepsDate ==
    \A d \in Instants :
        /\ getDateOnly(createFixedDate(d)) = getDateOnly(d)
        /\ createFixedDate(createFixedDate(d)) = createFixedDate(d)

\* C27: the list handler reads the store after the sweep for the caller:
\* when the sweep succeeds, no task in the answer has a deadline dated before
\* today and a status other than Expired
C27_ListAfterSweepHasNoStaleTask ==
    \A u \in Users, sf \in ListStatusFilters :
        LET r == listQuery(tasks, u, sf, {})
        IN  \A i \in r.ids :
                ~(isBeforeToday(r.tasks[i].deadline) /\ r.tasks[i].status # "Expired")

\* C28: a batch update that wrote all or only some of the caller's listed
\* tasks, repeated with the same ids and status, leaves every one of these
\* tasks with the status and the start_time of one fully successful run (a
\* run at the time of the first attempt or at the time of the retry)
C28_BatchRetrySameAsOneRun ==
    \A a \in Users, ids \in SUBSET TaskIds \ {{}},
       st \in {"Pending", "In Progress", "Completed"} :
        LET found == batchFound(tasks, a, ids)
        IN  \A done \in SUBSET found, h \in 0..MaxRetryHours :
                LET first == batchRunAt(tasks, a, ids, st, done, now)
                    again == batchRunAt(first, a, ids, st, found, now + h)
                IN  \E t \in {now, now + h} :
                        LET once == batchRunAt(tasks, a, ids, st, found, t)
                        IN  \A i \in found :
                                /\ again[i].status = once[i].status
                                /\ again[i].start_time = once[i].start_time

\* the same, for a retry within the hour of the first run
BatchRetryAtOnce ==
    \A a \in Users, ids \in SUBSET TaskIds \ {{}},
       st \in {"Pending", "In Progress", "Completed"} :
        LET found == batchFound(tasks, a, ids)
            once == batchRunAt(tasks, a, ids, st, found, now)
        IN  \A done \in SUBSET found :
                batchRunAt(batchRunAt(tasks, a, ids, st, done, now),
                           a, ids, st, found, now) = once

\* collection swept differs from the stored one only in the status of tasks
\* of user u that were not Expired and whose deadline is dated before today
SweepFrame(swept, u) ==
    /\ DOMAIN swept = DOMAIN tasks
    /\ \A i \in DOMAIN tasks :
          swept[i] # tasks[i] =>
              /\ tasks[i].user = u
              /\ isBeforeToday(tasks[i].deadline)
              /\ tasks[i].status # "Expired"
              /\ swept[i] = [tasks[i] EXCEPT !.status = "Expired"]

\* what updateExpiredTasksForUser does is inside the frame, and it returns
\* the number of tasks it changed
UserSweepInFrame ==
    \A u \in Users :
        LET r == updateExpiredTasksForUser(tasks, u)
        IN  /\ SweepFrame(r.tasks, u)
            /\ r.count = Cardinality({i \in DOMAIN tasks : r.tasks[i] # tasks[i]})

\* C29: a sweep for owner u, by updateExpiredTasksForUser or by the
\* middleware, changes nothing but the status of tasks of u that were not
\* Expired and whose deadline is dated before today, and the count returned
\* is the number of tasks changed
C29_SweepFrame ==
    /\ UserSweepInFrame
    /\ \A u \in Users : SweepFrame(autoUpdateExpiredStatus(tasks, u), u)

\* C30: of the delete requests of the owner that found the task before any
\* of them removed it (two of them, at the bound MaxDeletes), exactly one is
\* answered 200 ('Task deleted') and every other one 404, and no delete
\* request of an owner is answered anything else;
\* the task is removed by the request answered 200 and by no other step
C30_ConcurrentDeletesOneSuccess ==
    /\ [](\A d \in deleting : d.code \in {0, 200, 404})
    /\ [](\A i \in TaskIds :
             LET found == {d \in deleting : d.id = i /\ d.found}
             IN  (found # {} /\ \A d \in found : d.code # 0)
                     => Cardinality({d \in found : d.code = 200}) = 1)
    /\ [](\A d \in deleting : d.code = 200 => d.id \notin DOMAIN tasks)
    /\ [][\A i \in DOMAIN tasks \ DOMAIN tasks' :
              \E d \in deleting' \ deleting : d.id = i /\ d.code = 200]_vars

\* two delete requests found the same task, then one removed it and the
\* other has just been answered 404
C30_Witness ==
    /\ resp.op = "delete" /\ resp.code = 404
    /\ \E d, e \in deleting :
          /\ d.id = e.id /\ d.found /\ e.found
          /\ d.code = 200 /\ e.code = 404

===========================================================================
